---- MODULE Spec2Model ----
(***************************************************************************)
(* A model of the DER/BER reader of the `der` crate (src/der/src/reader.rs *)
(* and src/der/src/header.rs): the cursor operations of the Reader trait,  *)
(* the end-of-content handling and the indefinite-length scanner.          *)
(*                                                                         *)
(* A reader is a record [input, base, lim, pos, ber]: a window             *)
(* base..lim of absolute offsets into the byte sequence `input`, a cursor  *)
(* `pos` (absolute) and the is_parsing_ber flag.  Every operation returns  *)
(* a result record [ok, err, val, r]; r is the reader after the call, also *)
(* when the call failed.                                                   *)
(***************************************************************************)
EXTENDS Integers, Sequences, FiniteSets, TLC

VARIABLES input, ber, pos, last, tree, scan

vars == <<input, ber, pos, last, tree, scan>>

-----------------------------------------------------------------------------
(* Bounds of the model *)

\* longest encoding of a TLV tree scanned by SpecScan
MaxLen == 11
\* longest encoding of a TLV tree read by Spec
MaxSmall == 4
\* longest input made of arbitrary bytes
MaxJunk == 2
\* largest length argument passed to read_slice / rewind / read_nested
MaxArg == 3
\* longest encoding of the content carried by a ContentInfo
MaxContent == 8
\* the certificates there are, and the longest chain of them
\* longest value of a TLV written with a long-form length
MaxValue == 3
NumCerts == 3
MaxChain == 4
\* nesting depths tried around the recursion limit: limit - DeepSpan .. limit + DeepSpan
DeepSpan == 2
\* steps of the scanner machine taken by one ScanRun
StepChunk == 50

-----------------------------------------------------------------------------
(* Program constants *)

EOC_LENGTH == 2
EOC_MARKER == <<0, 0>>
INDEFINITE_LENGTH_PARSER_RECURSION_MAX == 1024

\* the BER indefinite length octet
INDEFINITE_LENGTH_OCTET == 128
\* Tag::Sequence, Tag::Integer, Tag::Utf8String, Tag::Set as tag bytes
TAG_SEQUENCE == 48
TAG_INTEGER == 2
TAG_UTF8_STRING == 12
TAG_SET == 49
\* the OBJECT IDENTIFIER tag, and the constructed context-specific tags [0] and [1]
TAG_OBJECT_IDENTIFIER == 6
TAG_CONTEXT_0 == 160
TAG_CONTEXT_1 == 161

\* the marker of IndefiniteLength for "indefinite"
Indefinite == -1
\* Option::None of peek_byte
None == -1

-----------------------------------------------------------------------------
(* Results *)

NoErr == "none"
NoVal == <<>>
Ok(r, v) == [ok |-> TRUE, err |-> NoErr, val |-> v, r |-> r]
Err(r, e) == [ok |-> FALSE, err |-> e, val |-> NoVal, r |-> r]

Max(a, b) == IF a >= b THEN a ELSE b
Min(a, b) == IF a <= b THEN a ELSE b

\* [x \in {v} |-> e] names the value v as x within e; Let yields e
Let(f) == f[CHOOSE x \in DOMAIN f : TRUE]

-----------------------------------------------------------------------------
(* SliceReader / NestedReader: the window over the input *)

SliceReader_new(bytes, isBer) ==
  [input |-> bytes, base |-> 0, lim |-> Len(bytes), pos |-> 0, ber |-> isBer]

input_len(r) == r.lim - r.base

position(r) == r.pos - r.base

is_parsing_ber(r) == r.ber

\* remaining_len forgetting the bytes already read
remaining_len_of_whole_input(r) == input_len(r)

remaining_len(r) ==
  IF input_len(r) >= position(r) THEN input_len(r) - position(r) ELSE 0

is_finished(r) == remaining_len(r) = 0

peek_byte(r) == IF r.pos < r.lim THEN r.input[r.pos + 1] ELSE None

read_slice(r, len) ==
  IF r.pos + len <= r.lim
  THEN Ok([r EXCEPT !.pos = @ + len], SubSeq(r.input, r.pos + 1, r.pos + len))
  ELSE Err(r, "Incomplete")

rewind(r, offset) ==
  IF offset <= position(r)
  THEN Ok([r EXCEPT !.pos = @ - offset], NoVal)
  ELSE Err(r, "Overflow")

read_byte(r) ==
  Let([s \in {read_slice(r, 1)} |->
    IF s.ok THEN Ok(s.r, s.val[1]) ELSE s])

peek_eoc(r) ==
  IF remaining_len(r) >= EOC_LENGTH
  THEN Ok(r, SubSeq(r.input, r.pos + 1, r.pos + EOC_LENGTH) = EOC_MARKER)
  ELSE Ok(r, FALSE)

-----------------------------------------------------------------------------
(* Tag, Length, Header *)

TagOf(byte) ==
  [byte |-> byte,
   class |-> byte \div 64,
   constructed |-> (byte \div 32) % 2 = 1,
   number |-> byte % 32]

Tag_decode(r) ==
  Let([b \in {read_byte(r)} |->
    IF b.ok THEN Ok(b.r, TagOf(b.val)) ELSE b])

peek_tag(r) ==
  IF peek_byte(r) = None THEN Err(r, "Incomplete") ELSE Ok(r, TagOf(peek_byte(r)))

RECURSIVE BigEndian(_)
BigEndian(bytes) ==
  IF bytes = <<>> THEN 0
  ELSE 256 * BigEndian(SubSeq(bytes, 1, Len(bytes) - 1)) + bytes[Len(bytes)]

IndefiniteLength_decode(r) ==
  Let([b \in {read_byte(r)} |->
    IF ~b.ok THEN b
    ELSE IF b.val < INDEFINITE_LENGTH_OCTET THEN Ok(b.r, b.val)
    ELSE IF b.val = INDEFINITE_LENGTH_OCTET THEN Ok(b.r, Indefinite)
    ELSE IF b.val <= 132
         THEN Let([s \in {read_slice(b.r, b.val - 128)} |->
                IF s.ok THEN Ok(s.r, BigEndian(s.val)) ELSE s])
    ELSE Err(b.r, "Overlength")])

is_definite(length) == length # Indefinite
is_indefinite(length) == length = Indefinite

\* Header::decode refusing the indefinite length under a primitive tag
Header_decode_constructed_only(r) ==
  Let([t \in {Tag_decode(r)} |->
    IF ~t.ok THEN t
    ELSE Let([l \in {IndefiniteLength_decode(t.r)} |->
           IF ~l.ok
           THEN Err(l.r, IF l.err = "Overlength" THEN "Length" ELSE l.err)
           ELSE IF is_indefinite(l.val) /\ ~t.val.constructed
                THEN Err(l.r, "UnexpectedTag")
                ELSE Ok(l.r, [tag |-> t.val, length |-> l.val])])])

Header_decode(r) ==
  Let([t \in {Tag_decode(r)} |->
    IF ~t.ok THEN t
    ELSE Let([l \in {IndefiniteLength_decode(t.r)} |->
           IF ~l.ok
           THEN Err(l.r, IF l.err = "Overlength" THEN "Length" ELSE l.err)
           ELSE Ok(l.r, [tag |-> t.val, length |-> l.val])])])

peek_header(r) ==
  Let([h \in {Header_decode(r)} |->
    IF h.ok THEN Ok(r, h.val) ELSE Err(r, h.err)])

Tag_encoded_len(tag) == 1

Length_encoded_len(length) ==
  IF is_indefinite(length) THEN 1
  ELSE IF length < 128 THEN 1
  ELSE IF length < 256 THEN 2
  ELSE IF length < 65536 THEN 3
  ELSE IF length < 16777216 THEN 4
  ELSE 5

\* Header::encoded_len counting no byte of the header
Header_encoded_len_of_nothing(header) == 0

Header_encoded_len(header) ==
  Tag_encoded_len(header.tag) + Length_encoded_len(header.length)

-----------------------------------------------------------------------------
(* Reader: end of content, finish, decode, nested readers *)

read_eoc(r) ==
  IF peek_byte(r) = 0
  THEN Let([eoc \in {read_slice(r, EOC_LENGTH)} |->
         IF ~eoc.ok THEN eoc
         ELSE IF eoc.val # EOC_MARKER THEN Err(eoc.r, "EndOfContent")
         ELSE Ok(eoc.r, TRUE)])
  ELSE Ok(r, FALSE)

\* finish looking for the end-of-content marker under DER too
finish_eoc_under_der(r, value) ==
  Let([e \in {read_eoc(r)} |->
    IF ~e.ok THEN e
    ELSE IF ~is_finished(e.r)
         THEN [ok |-> FALSE, err |-> "TrailingData", r |-> e.r,
               val |-> [decoded |-> position(e.r), remaining |-> remaining_len(e.r)]]
         ELSE Ok(e.r, value)])

finish(r, value) ==
  Let([e \in {IF is_parsing_ber(r) THEN read_eoc(r) ELSE Ok(r, FALSE)} |->
    IF ~e.ok THEN e
    ELSE IF ~is_finished(e.r)
         THEN [ok |-> FALSE, err |-> "TrailingData", r |-> e.r,
               val |-> [decoded |-> position(e.r), remaining |-> remaining_len(e.r)]]
         ELSE Ok(e.r, value)])

RECURSIVE T_decode(_, _), Call(_, _)

\* decode looking for the end-of-content marker under DER too
decode_eoc_under_der(r, T) ==
  Let([decoded \in {T_decode(T, r)} |->
    IF decoded.ok
    THEN Let([e \in {read_eoc(decoded.r)} |->
           IF ~e.ok THEN e ELSE Ok(e.r, decoded.val)])
    ELSE decoded])

decode(r, T) ==
  Let([decoded \in {T_decode(T, r)} |->
    IF decoded.ok /\ is_parsing_ber(decoded.r)
    THEN Let([e \in {read_eoc(decoded.r)} |->
           IF ~e.ok THEN e ELSE Ok(e.r, decoded.val)])
    ELSE decoded])

NestedReader_new(r, len) ==
  IF len <= remaining_len(r)
  THEN Ok([r EXCEPT !.base = r.pos, !.lim = r.pos + len], NoVal)
  ELSE Err(r, "Incomplete")

\* read_nested handing f the outer reader instead of the nested one
read_nested_outer_reader(r, len, f) ==
  Let([reader \in {NestedReader_new(r, len)} |->
    IF ~reader.ok THEN reader
    ELSE Let([ret \in {Call(f, r)} |->
           IF ~ret.ok THEN Err(r, ret.err)
           ELSE Let([fin \in {finish([ret.r EXCEPT !.lim = Min(@, r.pos + len)], ret.val)} |->
                  IF ~fin.ok THEN [fin EXCEPT !.r = r]
                  ELSE Ok([r EXCEPT !.pos = fin.r.pos], fin.val)])])])

read_nested(r, len, f) ==
  Let([reader \in {NestedReader_new(r, len)} |->
    IF ~reader.ok THEN reader
    ELSE Let([ret \in {Call(f, reader.r)} |->
           IF ~ret.ok THEN Err(r, ret.err)
           ELSE Let([fin \in {finish(ret.r, ret.val)} |->
                  IF ~fin.ok THEN [fin EXCEPT !.r = r]
                  ELSE Ok([r EXCEPT !.pos = fin.r.pos], fin.val)])])])

-----------------------------------------------------------------------------
(* The indefinite-length scanner *)

RECURSIVE indefinite_value_length_parse_to_end(_, _)

\* the scan without the end-of-content bytes added to the result
indefinite_value_length_no_eoc(r) ==
  LET start_position == position(r)
  IN Let([p \in {indefinite_value_length_parse_to_end(r, 0)} |->
       IF ~p.ok THEN p
       ELSE LET length == Max(position(p.r) - start_position, 0)
            IN Let([rw \in {rewind(p.r, length)} |->
                 IF ~rw.ok THEN rw ELSE Ok(rw.r, length)])])

\* the scan without the rewind
indefinite_value_length_no_rewind(r) ==
  LET start_position == position(r)
  IN Let([p \in {indefinite_value_length_parse_to_end(r, 0)} |->
       IF ~p.ok THEN p
       ELSE LET length == Max(position(p.r) - start_position, 0)
            IN Ok(p.r, length + EOC_LENGTH)])

indefinite_value_length(r) ==
  LET start_position == position(r)
  IN Let([p \in {indefinite_value_length_parse_to_end(r, 0)} |->
       IF ~p.ok THEN p
       ELSE LET length == Max(position(p.r) - start_position, 0)
            IN Let([rw \in {rewind(p.r, length)} |->
                 IF ~rw.ok THEN rw ELSE Ok(rw.r, length + EOC_LENGTH)])])

\* tlv_bytes counting the length octets of the header but not its tag octet
tlv_bytes_without_tag_octet(r) ==
  Let([header \in {peek_header(r)} |->
    IF ~header.ok THEN header
    ELSE LET header_len == Length_encoded_len(header.val.length)
         IN Let([value_len \in
                   {IF is_definite(header.val.length)
                    THEN Ok(r, header.val.length)
                    ELSE Let([l \in {indefinite_value_length(r)} |->
                           IF ~l.ok THEN l
                           ELSE IF l.val < EOC_LENGTH THEN Err(l.r, "Overflow")
                           ELSE Ok(l.r, l.val - EOC_LENGTH)])} |->
              IF ~value_len.ok THEN value_len
              ELSE read_slice(value_len.r, header_len + value_len.val)])])

tlv_bytes(r) ==
  Let([header \in {peek_header(r)} |->
    IF ~header.ok THEN header
    ELSE LET header_len == Header_encoded_len(header.val)
         IN Let([value_len \in
                   {IF is_definite(header.val.length)
                    THEN Ok(r, header.val.length)
                    ELSE Let([l \in {indefinite_value_length(r)} |->
                           IF ~l.ok THEN l
                           ELSE IF l.val < EOC_LENGTH THEN Err(l.r, "Overflow")
                           ELSE Ok(l.r, l.val - EOC_LENGTH)])} |->
              IF ~value_len.ok THEN value_len
              ELSE read_slice(value_len.r, header_len + value_len.val)])])

\* the limit test off by one: the limit itself is refused
RecursionLimitExceeded_at_limit(recursion_depth) ==
  recursion_depth >= INDEFINITE_LENGTH_PARSER_RECURSION_MAX

RecursionLimitExceeded(recursion_depth) ==
  recursion_depth > INDEFINITE_LENGTH_PARSER_RECURSION_MAX

indefinite_value_length_parse_to_end(r, recursion_depth) ==
  IF RecursionLimitExceeded(recursion_depth)
  THEN Err(r, "RecursionLimitExceeded")
  ELSE Let([header \in {peek_header(r)} |->
    IF ~header.ok THEN header
    ELSE Let([body \in
                {IF is_indefinite(header.val.length)
                 THEN Let([h \in {Header_decode(r)} |->
                        IF ~h.ok THEN h
                        ELSE Let([inner \in {indefinite_value_length_parse_to_end(
                                                h.r, recursion_depth + 1)} |->
                               IF ~inner.ok THEN inner
                               ELSE Let([e \in {read_eoc(inner.r)} |->
                                      IF ~e.ok THEN e
                                      ELSE IF ~e.val THEN Err(e.r, "EndOfContent")
                                      ELSE e])])])
                 ELSE tlv_bytes(r)} |->
           IF ~body.ok THEN body
           ELSE IF peek_eoc(body.r).val \/ is_finished(body.r)
                THEN Ok(body.r, NoVal)
                ELSE indefinite_value_length_parse_to_end(body.r, recursion_depth)])])

sequence(r, f) ==
  Let([header \in {Header_decode(r)} |->
    IF ~header.ok THEN header
    ELSE IF header.val.tag.byte # TAG_SEQUENCE THEN Err(header.r, "UnexpectedTag")
    ELSE Let([length \in {IF is_definite(header.val.length)
                          THEN Ok(header.r, header.val.length)
                          ELSE indefinite_value_length(header.r)} |->
           IF ~length.ok THEN length
           ELSE read_nested(length.r, length.val, f)])])

-----------------------------------------------------------------------------
(* Typed values: the decoders built on sequence() and decode() *)

Value(tagByte, bytes, kids) == [t |-> tagByte, v |-> bytes, kids |-> kids]

\* a closure passed to read_nested / sequence: an operation and its argument
Closure(op, n) == [op |-> op, n |-> n]

Prim_decode(r) ==
  Let([header \in {Header_decode(r)} |->
    IF ~header.ok THEN header
    ELSE IF is_indefinite(header.val.length) THEN Err(header.r, "Length")
    ELSE Let([s \in {read_slice(header.r, header.val.length)} |->
           IF ~s.ok THEN s
           ELSE Ok(s.r, Value(header.val.tag.byte, s.val, <<>>))])])

Node_decode(r) ==
  Let([t \in {peek_tag(r)} |->
    IF ~t.ok THEN t
    ELSE IF t.val.byte = TAG_SEQUENCE
         THEN Let([s \in {sequence(r, Closure("kids", 0))} |->
                IF ~s.ok THEN s ELSE Ok(s.r, Value(TAG_SEQUENCE, <<>>, s.val))])
         ELSE Prim_decode(r)])

-----------------------------------------------------------------------------
(* The CMS layer: ContentInfo, its [0] EXPLICIT wrapper and the ANY inside *)

ObjectIdentifier_decode(r) ==
  Let([header \in {Header_decode(r)} |->
    IF ~header.ok THEN header
    ELSE IF header.val.tag.byte # TAG_OBJECT_IDENTIFIER THEN Err(header.r, "UnexpectedTag")
    ELSE IF is_indefinite(header.val.length) THEN Err(header.r, "Length")
    ELSE read_slice(header.r, header.val.length)])

\* an ANY keeps its tag and the bytes of its value as they stand in the source
Any_decode(r) ==
  Let([header \in {Header_decode(r)} |->
    IF ~header.ok THEN header
    ELSE IF is_definite(header.val.length)
    THEN Let([s \in {read_slice(header.r, header.val.length)} |->
           IF ~s.ok THEN s
           ELSE Ok(s.r, [tag |-> header.val.tag.byte, value |-> s.val])])
    ELSE Let([l \in {indefinite_value_length(header.r)} |->
           IF ~l.ok THEN l
           ELSE Let([s \in {read_slice(l.r, l.val - EOC_LENGTH)} |->
                  IF ~s.ok THEN s
                  ELSE Let([e \in {read_eoc(s.r)} |->
                         IF ~e.ok THEN e
                         ELSE IF ~e.val THEN Err(e.r, "EndOfContent")
                         ELSE Ok(e.r, [tag |-> header.val.tag.byte, value |-> s.val])])])])])

\* ContextSpecific::decode, EXPLICIT, of an ANY: any constructed context-specific
\* tag is taken, its number is returned with the value
ContextSpecific_decode(r) ==
  Let([header \in {Header_decode(r)} |->
    IF ~header.ok THEN header
    ELSE IF header.val.tag.class # 2 \/ ~header.val.tag.constructed
    THEN Err(header.r, "UnexpectedTag")
    ELSE Let([length \in {IF is_definite(header.val.length)
                          THEN Ok(header.r, header.val.length)
                          ELSE indefinite_value_length(header.r)} |->
           IF ~length.ok THEN length
           ELSE Let([v \in {read_nested(length.r, length.val, Closure("Any", 0))} |->
                  IF ~v.ok THEN v
                  ELSE Ok(v.r, [tag_number |-> header.val.tag.number, value |-> v.val])])])])

\* the closure ContentInfo::decode_value hands to read_nested
ContentInfo_fields(reader) ==
  Let([content_type \in {decode(reader, "ObjectIdentifier")} |->
    IF ~content_type.ok THEN content_type
    ELSE Let([field \in {ContextSpecific_decode(content_type.r)} |->
           IF ~field.ok THEN field
           ELSE IF field.val.tag_number # 0 THEN Err(field.r, "Value")
           ELSE Ok(field.r, [content_type |-> content_type.val,
                             content |-> field.val.value])])])

ContentInfo_decode_value(reader, header) ==
  Let([length \in {IF is_definite(header.length)
                   THEN Ok(reader, header.length)
                   ELSE indefinite_value_length(reader)} |->
    IF ~length.ok THEN length
    ELSE read_nested(length.r, length.val, Closure("ContentInfo", 0))])

\* Decode::decode of a SEQUENCE type: the header, its tag, then decode_value
ContentInfo_decode(r) ==
  Let([header \in {Header_decode(r)} |->
    IF ~header.ok THEN header
    ELSE IF header.val.tag.byte # TAG_SEQUENCE THEN Err(header.r, "UnexpectedTag")
    ELSE ContentInfo_decode_value(header.r, header.val)])

\* a definite length in its shortest form
Length_encode(n) ==
  IF n < 128 THEN <<n>>
  ELSE IF n < 256 THEN <<129, n>>
  ELSE <<130, n \div 256, n % 256>>

Tlv_encode(tagByte, value) == <<tagByte>> \o Length_encode(Len(value)) \o value

\* Any::encode: the stored tag and value bytes, verbatim
Any_encode(any) == Tlv_encode(any.tag, any.value)

ContentInfo_encode_value(ci) ==
  Tlv_encode(TAG_OBJECT_IDENTIFIER, ci.content_type)
    \o Tlv_encode(TAG_CONTEXT_0, Any_encode(ci.content))

ContentInfo_to_der(ci) == Tlv_encode(TAG_SEQUENCE, ContentInfo_encode_value(ci))

T_decode(T, r) ==
  CASE T = "Header" -> Header_decode(r)
    [] T = "ObjectIdentifier" -> ObjectIdentifier_decode(r)
    [] T = "Any" -> Any_decode(r)
    [] T = "ContentInfo" -> ContentInfo_decode(r)
    [] OTHER -> Node_decode(r)

RECURSIVE Kids_decode(_)
Kids_decode(r) ==
  IF is_finished(r) THEN Ok(r, <<>>)
  ELSE Let([d \in {decode(r, "Node")} |->
         IF ~d.ok THEN d
         ELSE Let([rest \in {Kids_decode(d.r)} |->
                IF ~rest.ok THEN rest
                ELSE Ok(rest.r, <<d.val>> \o rest.val)])])

Call(f, r) ==
  CASE f.op = "kids" -> Kids_decode(r)
    [] f.op = "read_slice" -> read_slice(r, f.n)
    [] f.op = "read_byte" -> read_byte(r)
    [] f.op = "peek_byte" -> Ok(r, peek_byte(r))
    [] f.op = "peek_header" -> peek_header(r)
    [] f.op = "peek_eoc" -> peek_eoc(r)
    [] f.op = "read_eoc" -> read_eoc(r)
    [] f.op = "decode" -> decode(r, "Node")
    [] f.op = "tlv_bytes" -> tlv_bytes(r)
    [] f.op = "indefinite_value_length" -> indefinite_value_length(r)
    [] f.op = "Any" -> Any_decode(r)
    [] f.op = "ContentInfo" -> ContentInfo_fields(r)

from_bytes(T, bytes, isBer) ==
  Let([d \in {T_decode(T, SliceReader_new(bytes, isBer))} |->
    IF ~d.ok THEN d ELSE finish(d.r, d.val)])

from_der(bytes) == from_bytes("Node", bytes, FALSE)

from_ber(bytes) == from_bytes("Node", bytes, TRUE)

-----------------------------------------------------------------------------
(* The inputs: encodings of TLV trees, and arbitrary short byte strings *)

Leaf(tagByte, bytes) == [k |-> "leaf", tag |-> tagByte, val |-> bytes, kids |-> <<>>]
Cons(kind, tagByte, kids) == [k |-> kind, tag |-> tagByte, val |-> <<>>, kids |-> kids]
NoTree == [k |-> "none", tag |-> 0, val |-> <<>>, kids |-> <<>>]

\* the leaves, definite TLVs read as a whole: the empty SET 31 00, and the
\* INTEGER 0, whose value is a zero byte
Leaves == {Leaf(TAG_SET, <<>>), Leaf(TAG_INTEGER, <<0>>)}

\* tags written with the indefinite form: SEQUENCE, and the primitive UTF8String tag
IndefTags == {TAG_SEQUENCE, TAG_UTF8_STRING}

\* the closures handed to read_nested
Closures ==
  {Closure("read_slice", n) : n \in 1..2}
  \cup {Closure(o, 0) : o \in {"kids", "read_byte", "peek_byte", "peek_header", "peek_eoc",
                                "read_eoc", "decode", "tlv_bytes",
                                "indefinite_value_length"}}

RECURSIVE TreesOfLen(_), ForestsOfLen(_)

TreesOfLen(n) ==
  {l \in Leaves : 2 + Len(l.val) = n}
  \cup (IF n >= 2 THEN {Cons("def", TAG_SEQUENCE, f) : f \in ForestsOfLen(n - 2)} ELSE {})
  \cup (IF n >= 4
        THEN {Cons("indef", tg, f) : tg \in IndefTags, f \in ForestsOfLen(n - 4)}
        ELSE {})

ForestsOfLen(n) ==
  IF n = 0 THEN {<<>>}
  ELSE UNION {{<<t>> \o f : t \in TreesOfLen(k), f \in ForestsOfLen(n - k)} : k \in 1..n}

Trees == UNION {TreesOfLen(n) : n \in 2..MaxLen}

SmallTrees == UNION {TreesOfLen(n) : n \in 2..MaxSmall}

\* what follows a small tree in the input: nothing, an end-of-content marker,
\* a zero byte that starts no marker
Suffixes == {<<>>, <<0, 0>>, <<0, 2>>}

RECURSIVE Enc(_), EncForest(_), DerEnc(_), DerEncForest(_)

EncForest(f) == IF f = <<>> THEN <<>> ELSE Enc(Head(f)) \o EncForest(Tail(f))

Enc(t) ==
  IF t.k = "leaf" THEN <<t.tag, Len(t.val)>> \o t.val
  ELSE IF t.k = "def" THEN <<t.tag, Len(EncForest(t.kids))>> \o EncForest(t.kids)
  ELSE <<t.tag, INDEFINITE_LENGTH_OCTET>> \o EncForest(t.kids) \o EOC_MARKER

DerEncForest(f) == IF f = <<>> THEN <<>> ELSE DerEnc(Head(f)) \o DerEncForest(Tail(f))

DerEnc(t) ==
  IF t.k = "leaf" THEN <<t.tag, Len(t.val)>> \o t.val
  ELSE <<t.tag, Len(DerEncForest(t.kids))>> \o DerEncForest(t.kids)

Bytes == {0, 1, 2, TAG_SEQUENCE, INDEFINITE_LENGTH_OCTET}

Junk == UNION {[1..n -> Bytes] : n \in 0..MaxJunk}

-----------------------------------------------------------------------------
(* The state machine: one reader over the input, driven by its caller *)

\* the reader of the current state
Rd == [input |-> input, base |-> 0, lim |-> Len(input), pos |-> pos, ber |-> ber]

Idle == [pc |-> "idle", depth |-> 0, start |-> 0, err |-> NoErr, len |-> 0]

Fresh == [op |-> "new", arg |-> 0, start |-> 0, ok |-> TRUE, err |-> NoErr, val |-> NoVal]

Init ==
  /\ \/ \E t \in SmallTrees, s \in Suffixes : tree = t /\ input = Enc(t) \o s
     \/ tree = NoTree /\ input \in Junk
  /\ ber \in BOOLEAN
  /\ pos = 0
  /\ last = Fresh
  /\ scan = Idle

\* the call `op(arg)` returned `res`
Return(op, arg, res) ==
  /\ last' = [op |-> op, arg |-> arg, start |-> pos,
              ok |-> res.ok, err |-> res.err, val |-> res.val]
  /\ pos' = res.r.pos
  /\ UNCHANGED <<input, ber, tree, scan>>

ReadSlice == \E n \in 0..MaxArg : Return("read_slice", n, read_slice(Rd, n))

ReadByte == Return("read_byte", 0, read_byte(Rd))

ReadHeader == Return("Header::decode", 0, Header_decode(Rd))

Rewind == \E n \in 1..MaxArg : Return("rewind", n, rewind(Rd, n))

ReadEoc == Return("read_eoc", 0, read_eoc(Rd))

Decode == \E T \in {"Header", "Node"} : Return("decode", T, decode(Rd, T))

Finish == Return("finish", 0, finish(Rd, NoVal))

TlvBytes == Return("tlv_bytes", 0, tlv_bytes(Rd))

IndefiniteValueLength ==
  Return("indefinite_value_length", 0, indefinite_value_length(Rd))

ReadNested ==
  \E len \in 0..MaxArg, f \in Closures :
    Return("read_nested", [len |-> len, f |-> f], read_nested(Rd, len, f))

Sequence == Return("sequence", 0, sequence(Rd, Closure("kids", 0)))

FromBytes ==
  /\ last.op = "new"
  /\ Return(IF ber THEN "from_ber" ELSE "from_der", 0, from_bytes("Node", input, ber))

Next ==
  \/ ReadSlice
  \/ ReadByte
  \/ ReadHeader
  \/ Rewind
  \/ ReadEoc
  \/ Decode
  \/ Finish
  \/ TlvBytes
  \/ IndefiniteValueLength
  \/ ReadNested
  \/ Sequence
  \/ FromBytes

Spec == Init /\ [][Next]_vars

-----------------------------------------------------------------------------
(* The scanner over the encodings of TLV trees, read as BER *)

ScanInit ==
  /\ tree \in Trees
  /\ input = Enc(tree)
  /\ ber = TRUE
  /\ pos = 0
  /\ last = Fresh
  /\ scan = Idle

ScanNext ==
  \/ ReadSlice
  \/ ReadHeader
  \/ IndefiniteValueLength
  \/ TlvBytes
  \/ FromBytes

SpecScan == ScanInit /\ [][ScanNext]_vars

-----------------------------------------------------------------------------
(* Where the indefinite-length values of a tree lie in its encoding *)

RECURSIVE Sites(_, _), ForestSites(_, _)

\* the indefinite-length nodes of t, whose encoding starts at offset off: `off` is
\* the offset of the first value byte, `after` the offset just after the node's
\* terminating end-of-content marker
Sites(t, off) ==
  IF t.k = "leaf" THEN {}
  ELSE (IF t.k = "indef"
        THEN {[off |-> off + 2, node |-> t, after |-> off + Len(Enc(t))]}
        ELSE {})
       \cup ForestSites(t.kids, off + 2)

ForestSites(f, off) ==
  IF f = <<>> THEN {}
  ELSE Sites(Head(f), off) \cup ForestSites(Tail(f), off + Len(Enc(Head(f))))

\* the sites of the current input at which the last call started
SitesAtStart == {s \in Sites(tree, 0) : s.off = last.start}

IsConstructed(tagByte) == TagOf(tagByte).constructed

\* a non-empty run of TLVs, each definite or itself indefinite with a non-empty run
RECURSIVE NonEmptyRuns(_)
NonEmptyRuns(t) ==
  /\ t.kids # <<>>
  /\ \A i \in 1..Len(t.kids) : t.kids[i].k = "indef" => NonEmptyRuns(t.kids[i])

\* the indefinite form is used under constructed tags only, in t and in the TLVs
\* a scan of t's value descends into
RECURSIVE ConstructedOnly(_)
ConstructedOnly(t) ==
  /\ IsConstructed(t.tag)
  /\ \A i \in 1..Len(t.kids) : t.kids[i].k = "indef" => ConstructedOnly(t.kids[i])

WellFormed(t) == NonEmptyRuns(t) /\ ConstructedOnly(t)

\* some TLV a scan of t's value descends into is indefinite under a primitive tag
RECURSIVE MeetsPrimitiveIndefinite(_)
MeetsPrimitiveIndefinite(t) ==
  \E i \in 1..Len(t.kids) :
    /\ t.kids[i].k = "indef"
    /\ ~IsConstructed(t.kids[i].tag) \/ MeetsPrimitiveIndefinite(t.kids[i])

HasIndefiniteKid(t) == \E i \in 1..Len(t.kids) : t.kids[i].k = "indef"

\* every constructed value of t carries a constructed tag: DerEnc(t) is valid DER
RECURSIVE DerShaped(_)
DerShaped(t) ==
  t.k = "leaf" \/ (IsConstructed(t.tag) /\ \A i \in 1..Len(t.kids) : DerShaped(t.kids[i]))

RECURSIVE HasEmptyIndefinite(_)
HasEmptyIndefinite(t) ==
  \/ t.k = "indef" /\ t.kids = <<>>
  \/ \E i \in 1..Len(t.kids) : HasEmptyIndefinite(t.kids[i])

Scanned == last.op = "indefinite_value_length"

-----------------------------------------------------------------------------
(* C1: from_ber on a BER input that differs from valid DER only in the
   indefinite length form of some constructed values succeeds with the value
   from_der yields on the equivalent DER bytes. *)
C1_BerYieldsDerValue ==
  (last.op = "from_ber" /\ DerShaped(tree))
    => /\ from_der(DerEnc(tree)).ok
       /\ last.ok
       /\ last.val = from_der(DerEnc(tree)).val

(* C2: indefinite_value_length, called on the first value byte of a well-formed
   indefinite-length value, returns L + 2, L being the length of the run of TLVs
   before the terminating end-of-content marker. *)
C2_ScanReturnsRunPlusEoc ==
  Scanned =>
    \A s \in SitesAtStart :
      WellFormed(s.node) =>
        last.ok /\ last.val = Len(EncForest(s.node.kids)) + EOC_LENGTH

C2_Witness ==
  /\ Scanned /\ last.ok
  /\ \E s \in SitesAtStart :
       WellFormed(s.node) /\ HasIndefiniteKid(s.node)

(* C3 as stated: the length the scanner reports is the distance from the first
   value byte to the byte just after the terminating end-of-content marker,
   minus two. *)
C3_ReportedIsDistanceMinusTwo ==
  Scanned =>
    \A s \in SitesAtStart :
      WellFormed(s.node) => last.ok /\ last.val = (s.after - s.off) - 2

(* C3 amended: the length the scanner reports is the distance from the first
   value byte to the byte just after the terminating end-of-content marker. *)
C3_ReportedIsDistanceToAfterEoc ==
  Scanned =>
    \A s \in SitesAtStart :
      WellFormed(s.node) =>
        /\ last.ok
        /\ last.start + last.val = s.after
        /\ SubSeq(input, last.start + last.val - 1, last.start + last.val) = EOC_MARKER

C3_Witness ==
  /\ Scanned /\ last.ok
  /\ \E s \in SitesAtStart :
       WellFormed(s.node) /\ last.start + last.val = s.after /\ s.after < Len(input)

(* C4: whenever indefinite_value_length returns successfully, the cursor is
   where it was when the call was made. *)
C4_ScanRestoresCursor ==
  (Scanned /\ last.ok) => pos = last.start

C4_Witness ==
  /\ Scanned /\ last.ok /\ pos = last.start /\ pos > 2 /\ last.val > EOC_LENGTH + 2
  /\ \E s \in SitesAtStart : HasIndefiniteKid(s.node)

\* the two bytes at the start of the last call: a primitive tag, the indefinite length octet
PrimitiveIndefiniteAtStart ==
  /\ last.start + 2 <= Len(input)
  /\ ~IsConstructed(input[last.start + 1])
  /\ input[last.start + 2] = INDEFINITE_LENGTH_OCTET

(* C7 as stated: a header carrying the indefinite length form under a primitive
   tag is rejected with UnexpectedTag, by Header::decode and by the scanner's
   recursion. *)
C7_PrimitiveIndefiniteRejected ==
  /\ (last.op = "Header::decode" /\ PrimitiveIndefiniteAtStart)
       => (~last.ok /\ last.err = "UnexpectedTag")
  /\ Scanned =>
       \A s \in SitesAtStart :
         (NonEmptyRuns(s.node) /\ MeetsPrimitiveIndefinite(s.node))
           => (~last.ok /\ last.err = "UnexpectedTag")

(* C7 amended: a header carrying the indefinite length form under a primitive
   tag is accepted: Header::decode yields the tag with the indefinite length and
   consumes the two bytes, the scanner measures a value holding such a TLV as it
   measures any other, and neither ever fails with UnexpectedTag. *)
C7_PrimitiveIndefiniteAccepted ==
  /\ (last.op = "Header::decode" /\ PrimitiveIndefiniteAtStart)
       => /\ last.ok
          /\ is_indefinite(last.val.length)
          /\ last.val.tag = TagOf(input[last.start + 1])
          /\ pos = last.start + 2
  /\ Scanned =>
       \A s \in SitesAtStart :
         (NonEmptyRuns(s.node) /\ MeetsPrimitiveIndefinite(s.node))
           => (last.ok /\ last.val = s.after - s.off)
  /\ (last.op = "Header::decode" \/ Scanned) => last.err # "UnexpectedTag"

C7_Witness ==
  /\ Scanned /\ last.ok
  /\ \E s \in SitesAtStart : NonEmptyRuns(s.node) /\ MeetsPrimitiveIndefinite(s.node)

(* C8: an indefinite-length value that is not terminated by an end-of-content
   marker before the input ends makes the scanner fail with EndOfContent, also
   for the value measured at depth 0: scanned from its first byte, an input that
   is one complete TLV, with nothing after it, has no terminating marker. *)
C8_MissingEocFails ==
  (Scanned /\ last.start = 0 /\ (tree.k = "indef" => WellFormed(tree)))
    => (~last.ok /\ last.err = "EndOfContent")

-----------------------------------------------------------------------------
(* The scanner as a machine, on inputs nested around the recursion limit.
   indefinite_value_length_parse_to_end keeps nothing on its stack but
   recursion_depth, so a call in progress is the cursor, the depth and the place
   in the loop: "loop" before a header is peeked, "exit" at the loop's exit test.
   A machine state is [pc, depth, start, r, res]: r the reader, res the result
   of indefinite_value_length once pc is "done" or "failed". *)

\* the nesting depths tried
DeepNestings ==
  (INDEFINITE_LENGTH_PARSER_RECURSION_MAX - DeepSpan)
    ..(INDEFINITE_LENGTH_PARSER_RECURSION_MAX + DeepSpan)

\* a SEQUENCE written in the indefinite form, holding n nested indefinite SEQUENCEs
\* around an empty SET: n + 1 headers, 31 00, n + 1 end-of-content markers
DeepInput(n) ==
  [i \in 1..(4 * (n + 1) + 2) |->
     IF i <= 2 * (n + 1) THEN (IF i % 2 = 1 THEN TAG_SEQUENCE ELSE INDEFINITE_LENGTH_OCTET)
     ELSE IF i = 2 * (n + 1) + 1 THEN TAG_SET
     ELSE 0]

\* the nesting of the current deep input
DeepNesting == ((Len(input) - 2) \div 4) - 1

MachineReturn(m, res) ==
  [m EXCEPT !.pc = IF res.ok THEN "done" ELSE "failed", !.r = res.r, !.res = res]

MachineGoOn(m, r, pc, depth) == [m EXCEPT !.pc = pc, !.r = r, !.depth = depth]

\* indefinite_value_length is entered: parse_to_end(0) begins
MachineStart(r) ==
  LET m == [pc |-> "loop", depth |-> 0, start |-> position(r), r |-> r, res |-> Ok(r, 0)]
  IN IF RecursionLimitExceeded(0)
     THEN MachineReturn(m, Err(r, "RecursionLimitExceeded"))
     ELSE m

\* one pass of the loop body
MachineLoop(m) ==
  Let([header \in {peek_header(m.r)} |->
    IF ~header.ok THEN MachineReturn(m, header)
    ELSE IF is_indefinite(header.val.length)
    THEN Let([h \in {Header_decode(m.r)} |->
           IF ~h.ok THEN MachineReturn(m, h)
           ELSE IF RecursionLimitExceeded(m.depth + 1)
           THEN MachineReturn(m, Err(h.r, "RecursionLimitExceeded"))
           ELSE MachineGoOn(m, h.r, "loop", m.depth + 1)])
    ELSE Let([t \in {tlv_bytes(m.r)} |->
           IF ~t.ok THEN MachineReturn(m, t)
           ELSE MachineGoOn(m, t.r, "exit", m.depth)])])

\* the exit test of the loop, and the return to the caller when the loop is left
MachineExit(m) ==
  IF peek_eoc(m.r).val \/ is_finished(m.r)
  THEN IF m.depth = 0
       THEN LET length == Max(position(m.r) - m.start, 0)
            IN Let([rw \in {rewind(m.r, length)} |->
                 MachineReturn(m, IF rw.ok THEN Ok(rw.r, length + EOC_LENGTH) ELSE rw)])
       ELSE Let([e \in {read_eoc(m.r)} |->
              IF ~e.ok THEN MachineReturn(m, e)
              ELSE IF ~e.val THEN MachineReturn(m, Err(e.r, "EndOfContent"))
              ELSE MachineGoOn(m, e.r, "exit", m.depth - 1)])
  ELSE MachineGoOn(m, m.r, "loop", m.depth)

MachineStep(m) ==
  IF m.pc = "loop" THEN MachineLoop(m)
  ELSE IF m.pc = "exit" THEN MachineExit(m)
  ELSE m

RECURSIVE MachineSteps(_, _)
MachineSteps(m, fuel) ==
  IF fuel = 0 \/ m.pc \in {"done", "failed"} THEN m
  ELSE MachineSteps(MachineStep(m), fuel - 1)

DeepInit ==
  /\ \E n \in DeepNestings : input = DeepInput(n)
  /\ tree = NoTree
  /\ ber = TRUE
  /\ pos = 0
  /\ last = Fresh
  /\ scan = Idle

\* the machine went from the state of the variables to m
MachineMoved(m) ==
  /\ scan' = [pc |-> m.pc, depth |-> m.depth, start |-> m.start,
              err |-> m.res.err, len |-> m.res.val]
  /\ pos' = m.r.pos
  /\ last' = IF m.pc \in {"done", "failed"}
             THEN [op |-> "indefinite_value_length", arg |-> 0, start |-> m.start,
                   ok |-> m.res.ok, err |-> m.res.err,
                   val |-> IF m.res.ok THEN m.res.val ELSE NoVal]
             ELSE last
  /\ UNCHANGED <<input, ber, tree>>

\* the outer header is consumed by the caller of the scanner
DeepHeader ==
  /\ scan.pc = "idle" /\ last.op = "new"
  /\ ReadHeader

ScanStart ==
  /\ scan.pc = "idle" /\ last.op = "Header::decode" /\ last.ok
  /\ MachineMoved(MachineStart(Rd))

\* the scan goes on, by StepChunk steps of the machine at most
ScanRun ==
  /\ scan.pc \in {"loop", "exit"}
  /\ MachineMoved(MachineSteps([pc |-> scan.pc, depth |-> scan.depth,
                                start |-> scan.start, r |-> Rd, res |-> Ok(Rd, 0)],
                               StepChunk))

DeepNext ==
  \/ DeepHeader
  \/ ScanStart
  \/ ScanRun

SpecDeep == DeepInit /\ [][DeepNext]_vars

(* C6: the scanner fails with RecursionLimitExceeded when indefinite-length
   values are nested to depth 1025 inside the measured value, and does not fail
   when the nesting is at most 1024. *)
C6_RecursionLimit ==
  /\ scan.depth <= INDEFINITE_LENGTH_PARSER_RECURSION_MAX
  /\ scan.pc \in {"done", "failed"} =>
       IF DeepNesting > INDEFINITE_LENGTH_PARSER_RECURSION_MAX
       THEN scan.pc = "failed" /\ scan.err = "RecursionLimitExceeded"
       ELSE scan.pc = "done" /\ last.val = Len(input) - 2 /\ pos = 2

C6_Witness ==
  /\ scan.pc = "failed" /\ scan.err = "RecursionLimitExceeded"
  /\ DeepNesting = INDEFINITE_LENGTH_PARSER_RECURSION_MAX + 1

-----------------------------------------------------------------------------
(* The calls of Spec, seen from the state they returned to *)

\* the reader over `bytes` as it stood when the last call began
ReaderBefore(bytes) ==
  [input |-> bytes, base |-> 0, lim |-> Len(bytes), pos |-> last.start, ber |-> ber]

\* what a call leaves behind: its result and the cursor
Outcome(res) == [ok |-> res.ok, err |-> res.err, val |-> res.val, pos |-> res.r.pos]

LastOutcome == [ok |-> last.ok, err |-> last.err, val |-> last.val, pos |-> pos]

\* the bytes of the input from offset p on, n of them at most
BytesAt(p, n) == SubSeq(input, p + 1, Min(p + n, Len(input)))

NestedCalled ==
  /\ last.op = "read_nested"
  /\ last.start + last.arg.len <= Len(input)

(* C5: a nested reader made by read_nested(len, f) at outer position p shows f
   no byte at an outer offset >= p + len, whatever f does with it and also
   under BER: the call ends as it ends on the input cut off at p + len, and the
   cursor it leaves is not beyond p + len. *)
C5_NestedReaderBounded ==
  NestedCalled =>
    /\ LastOutcome =
         Outcome(read_nested(ReaderBefore(SubSeq(input, 1, last.start + last.arg.len)),
                             last.arg.len, last.arg.f))
    /\ pos <= last.start + last.arg.len

\* f on the outer reader would have used bytes beyond the bound: it ends
\* otherwise than it did in the nested reader
C5_Witness ==
  /\ NestedCalled
  /\ ber
  /\ last.start + last.arg.len < Len(input)
  /\ last.arg.f.op \in {"peek_header", "indefinite_value_length", "decode"}
  /\ Call(last.arg.f, ReaderBefore(input)).ok
  /\ ~last.ok

\* T's own decode in the call decode<T> that returned last
OwnDecode == T_decode(last.arg, ReaderBefore(input))

(* C9, as stated: decode<T> ends as T's own decode when the reader is not
   parsing BER or T failed; otherwise the cursor is 2 beyond T's own exactly
   when the two bytes after the value are 00 00, and where T's decode left it
   in every other case. *)
C9_EocConsumedIffMarker ==
  last.op = "decode" =>
    IF ~ber \/ ~OwnDecode.ok
    THEN LastOutcome = Outcome(OwnDecode)
    ELSE pos = OwnDecode.r.pos
                 + (IF BytesAt(OwnDecode.r.pos, EOC_LENGTH) = EOC_MARKER THEN 2 ELSE 0)

(* C9, amended: decode<T> ends as T's own decode when the reader is not
   parsing BER, when T failed, or when the byte after the value is not 00.
   Under BER after a successful T: if the two bytes after the value are 00 00
   they are consumed and T's value is returned; if 00 is followed by another
   byte, both bytes are consumed and decode fails with EndOfContent; if 00 is
   the last byte, decode fails with Incomplete and the cursor stays after the
   value. *)
C9_EocConsumedOrRefused ==
  last.op = "decode" =>
    LET own == OwnDecode
        next == BytesAt(own.r.pos, EOC_LENGTH)
    IN IF ~ber \/ ~own.ok \/ next = <<>> \/ next[1] # 0
       THEN LastOutcome = Outcome(own)
       ELSE IF next = EOC_MARKER
       THEN LastOutcome = [Outcome(own) EXCEPT !.pos = @ + 2]
       ELSE IF Len(next) = EOC_LENGTH
       THEN ~last.ok /\ last.err = "EndOfContent" /\ pos = own.r.pos + 2
       ELSE ~last.ok /\ last.err = "Incomplete" /\ pos = own.r.pos

C9_Witness ==
  /\ last.op = "decode" /\ ber
  /\ OwnDecode.ok
  /\ BytesAt(OwnDecode.r.pos, EOC_LENGTH) = EOC_MARKER
  /\ last.ok /\ pos = OwnDecode.r.pos + 2

\* TrailingData{decoded, remaining} as finish reports it with the cursor at p
TrailingData(p) == [decoded |-> p, remaining |-> Len(input) - p]

(* C10, as stated: finish returns Ok(value) or TrailingData{decoded, remaining}
   and nothing else, with decoded the position and remaining the unread bytes,
   which add up to the length of the input; Ok exactly when nothing remains
   after the end-of-content marker that BER lets it consume; under DER it
   consumes nothing. *)
C10_OkOrTrailingData ==
  last.op = "finish" =>
    /\ IF pos = Len(input)
       THEN last.ok /\ last.val = NoVal
       ELSE ~last.ok /\ last.err = "TrailingData" /\ last.val = TrailingData(pos)
    /\ pos \in {last.start} \cup (IF ber THEN {last.start + EOC_LENGTH} ELSE {})

(* C10, amended: under DER, or under BER when the next byte is not 00, finish
   consumes nothing and returns Ok(value) if no input remains, else
   TrailingData{decoded, remaining} with decoded the position and remaining the
   unread bytes, which add up to the length of the input. Under BER, if the
   next two bytes are 00 00 it consumes them and returns the same way from the
   position after them; if 00 is followed by another byte it consumes both and
   fails with EndOfContent; if 00 is the last byte it fails with Incomplete. *)
C10_FinishOutcomes ==
  last.op = "finish" =>
    LET next == BytesAt(last.start, EOC_LENGTH)
        drained(p) ==
          /\ pos = p
          /\ IF p = Len(input)
             THEN last.ok /\ last.val = NoVal
             ELSE ~last.ok /\ last.err = "TrailingData" /\ last.val = TrailingData(p)
                  /\ last.val.decoded + last.val.remaining = Len(input)
    IN IF ~ber \/ next = <<>> \/ next[1] # 0 THEN drained(last.start)
       ELSE IF next = EOC_MARKER THEN drained(last.start + EOC_LENGTH)
       ELSE IF Len(next) = EOC_LENGTH
       THEN ~last.ok /\ last.err = "EndOfContent" /\ pos = last.start + EOC_LENGTH
       ELSE ~last.ok /\ last.err = "Incomplete" /\ pos = last.start

\* under BER the marker is consumed and data remains after it
C10_Witness ==
  /\ last.op = "finish" /\ ber
  /\ BytesAt(last.start, EOC_LENGTH) = EOC_MARKER
  /\ pos = last.start + EOC_LENGTH
  /\ ~last.ok /\ last.err = "TrailingData"
  /\ last.val = TrailingData(pos) /\ last.val.remaining > 0

-----------------------------------------------------------------------------
(* Where the TLVs of a tree lie in its encoding *)

RECURSIVE Tlvs(_, _), ForestTlvs(_, _)

\* the nodes of t, whose encoding starts at offset off, each with the offset of
\* its tag byte
Tlvs(t, off) == {[off |-> off, node |-> t]} \cup ForestTlvs(t.kids, off + 2)

ForestTlvs(f, off) ==
  IF f = <<>> THEN {}
  ELSE Tlvs(Head(f), off) \cup ForestTlvs(Tail(f), off + Len(Enc(Head(f))))

\* the TLVs of the current input on whose tag byte the last call started
TlvsAtStart ==
  IF tree = NoTree THEN {} ELSE {s \in Tlvs(tree, 0) : s.off = last.start}

RECURSIVE AllDefinite(_)
AllDefinite(t) == t.k # "indef" /\ \A i \in 1..Len(t.kids) : AllDefinite(t.kids[i])

(* C11: tlv_bytes, called on the tag byte of a TLV, returns the bytes of that
   TLV, header, value and terminating end-of-content marker, and leaves the
   cursor on the first byte after it, for definite and indefinite TLVs, followed
   by siblings or not. *)
C11_TlvBytesReturnsTheTlv ==
  last.op = "tlv_bytes" =>
    \A s \in TlvsAtStart :
      /\ last.ok
      /\ last.val = Enc(s.node)
      /\ pos = s.off + Len(Enc(s.node))

-----------------------------------------------------------------------------
(* ContentInfo messages: decoded from DER or BER, and emitted again *)

\* the contentType of the messages
OidLeaf == Leaf(TAG_OBJECT_IDENTIFIER, <<42>>)

Kinds == {"def", "indef"}

Contents == UNION {TreesOfLen(n) : n \in 2..MaxContent}

\* a ContentInfo: SEQUENCE { contentType, [0] { content } }, each of the two
\* constructed values in the definite or the indefinite form
ContentInfoTree(k1, k2, content) ==
  Cons(k1, TAG_SEQUENCE, <<OidLeaf, Cons(k2, TAG_CONTEXT_0, <<content>>)>>)

ContentInfoTrees ==
  {ContentInfoTree(k1, k2, c) : k1 \in Kinds, k2 \in Kinds, c \in Contents}

IsContentInfoTree(t) ==
  /\ t.k \in Kinds /\ t.tag = TAG_SEQUENCE /\ Len(t.kids) = 2
  /\ t.kids[1] = OidLeaf
  /\ t.kids[2].k \in Kinds /\ t.kids[2].tag = TAG_CONTEXT_0 /\ Len(t.kids[2].kids) = 1

\* messages whose second field is not the EXPLICIT [0] wrapper: the field is
\* missing, carries the content without a wrapper, or is wrapped in [1]
SmallContents == UNION {TreesOfLen(n) : n \in 2..MaxSmall}

UnwrappedTrees ==
  {Cons(k1, TAG_SEQUENCE, <<OidLeaf>>) : k1 \in Kinds}
    \cup {Cons(k1, TAG_SEQUENCE, <<OidLeaf, c>>) : k1 \in Kinds, c \in SmallContents}
    \cup {Cons(k1, TAG_SEQUENCE, <<OidLeaf, Cons(k2, TAG_CONTEXT_1, <<c>>)>>) :
            k1 \in Kinds, k2 \in Kinds, c \in SmallContents}

LacksWrapper(t) ==
  /\ t.k \in Kinds /\ t.tag = TAG_SEQUENCE /\ t.kids[1] = OidLeaf
  /\ Len(t.kids) = 2 => t.kids[2].tag # TAG_CONTEXT_0

CmsInit ==
  /\ tree \in ContentInfoTrees \cup UnwrappedTrees
  /\ input = Enc(tree)
  /\ ber \in BOOLEAN
  /\ pos = 0
  /\ last = Fresh
  /\ scan = Idle

ContentInfoFromBytes ==
  /\ last.op = "new"
  /\ Return(IF ber THEN "ContentInfo::from_ber" ELSE "ContentInfo::from_der", 0,
            from_bytes("ContentInfo", input, ber))

ContentInfoDecoded ==
  last.op \in {"ContentInfo::from_ber", "ContentInfo::from_der"} /\ last.ok

ToDer ==
  /\ ContentInfoDecoded
  /\ last' = [op |-> "to_der", arg |-> last.op, start |-> pos, ok |-> TRUE,
              err |-> NoErr, val |-> ContentInfo_to_der(last.val)]
  /\ UNCHANGED <<input, ber, pos, tree, scan>>

\* sequence() on the message, with a field decoder that reads a given number
\* of bytes from the reader it is handed
FieldDecoders == {Closure("read_slice", n) : n \in 0..Len(input)}

SequenceWith ==
  /\ last.op = "new"
  /\ \E f \in FieldDecoders : Return("sequence", f, sequence(Rd, f))

CmsNext ==
  \/ ContentInfoFromBytes
  \/ ToDer
  \/ SequenceWith

SpecCms == CmsInit /\ [][CmsNext]_vars

(* C12: for every ContentInfo that from_ber yields from an input with
   indefinite lengths, in the ContentInfo SEQUENCE, in the [0] wrapper or inside
   the content, to_der emits canonical DER: the bytes to_der emits for the
   message decoded from the equivalent DER form, which hold no indefinite-length
   header and no end-of-content marker. *)
C12_ToDerIsCanonical ==
  (last.op = "to_der" /\ last.arg = "ContentInfo::from_ber"
     /\ IsContentInfoTree(tree) /\ DerShaped(tree)) =>
    /\ from_bytes("ContentInfo", DerEnc(tree), FALSE).ok
    /\ last.val = ContentInfo_to_der(from_bytes("ContentInfo", DerEnc(tree), FALSE).val)
    /\ last.val = DerEnc(tree)

(* C13: decoding a ContentInfo whose second field is not an EXPLICIT [0]
   wrapper, because it is missing, has a tag that is not context-specific, or
   is context-specific with another number, fails with UnexpectedTag: it never
   succeeds and never fails with another error kind. *)
C13_MissingWrapperIsUnexpectedTag ==
  (last.op \in {"ContentInfo::from_ber", "ContentInfo::from_der"}
     /\ LacksWrapper(tree) /\ DerShaped(tree) /\ ~HasEmptyIndefinite(tree)
     /\ (~ber => AllDefinite(tree))) =>
    /\ ~last.ok
    /\ last.err = "UnexpectedTag"

-----------------------------------------------------------------------------
(* Certs-only SignedData messages built from certificates *)

\* id-data and id-signedData, as value bytes of the OBJECT IDENTIFIER
ID_DATA == <<42, 134, 72, 134, 247, 13, 1, 7, 1>>
ID_SIGNED_DATA == <<42, 134, 72, 134, 247, 13, 1, 7, 2>>

\* a certificate is its DER encoding, a SEQUENCE
Certificates == {<<TAG_SEQUENCE, 1, c>> : c \in 1..NumCerts}

PkiPaths == UNION {[1..n -> Certificates] : n \in 0..MaxChain}

Some(v) == [some |-> TRUE, value |-> v]
Absent == [some |-> FALSE, value |-> <<>>]

\* the DER ordering of encodings: bytewise, a proper prefix first
LexLess(a, b) ==
  \E i \in 1..(Min(Len(a), Len(b)) + 1) :
    /\ \A j \in 1..(i - 1) : a[j] = b[j]
    /\ \/ i > Len(a) /\ i <= Len(b)
       \/ i <= Len(a) /\ i <= Len(b) /\ a[i] < b[i]

\* SetOfVec::insert: keeps the elements sorted, rejects a duplicate
SetOfVec_insert(set, item) ==
  IF \E i \in 1..Len(set) : set[i] = item
  THEN [ok |-> FALSE, err |-> "DuplicateElement", val |-> NoVal]
  ELSE Let([k \in {Cardinality({i \in 1..Len(set) : LexLess(set[i], item)})} |->
         [ok |-> TRUE, err |-> NoErr,
          val |-> SubSeq(set, 1, k) \o <<item>> \o SubSeq(set, k + 1, Len(set))]])

\* the loop of TryFrom<PkiPath>: certs.0.insert(cert)? for each certificate
RECURSIVE InsertAll(_, _)
InsertAll(certs, pki_path) ==
  IF pki_path = <<>> THEN [ok |-> TRUE, err |-> NoErr, val |-> certs]
  ELSE Let([ins \in {SetOfVec_insert(certs, Head(pki_path))} |->
         IF ~ins.ok THEN ins ELSE InsertAll(ins.val, Tail(pki_path))])

RECURSIVE Concat(_)
Concat(items) == IF items = <<>> THEN <<>> ELSE Head(items) \o Concat(Tail(items))

SetOfVec_encode(set) == Tlv_encode(TAG_SET, Concat(set))

\* an OPTIONAL field under an IMPLICIT context-specific tag: omitted if absent
Implicit_encode(tagByte, field) ==
  IF field.some THEN Tlv_encode(tagByte, Concat(field.value)) ELSE <<>>

EncapsulatedContentInfo_encode(eci) ==
  Tlv_encode(TAG_SEQUENCE,
    Tlv_encode(TAG_OBJECT_IDENTIFIER, eci.econtent_type)
      \o (IF eci.econtent.some
          THEN Tlv_encode(TAG_CONTEXT_0, Any_encode(eci.econtent.value))
          ELSE <<>>))

SignedData_encode_value_without_crls(sd) ==
  Tlv_encode(TAG_INTEGER, <<sd.version>>)
    \o SetOfVec_encode(sd.digest_algorithms)
    \o EncapsulatedContentInfo_encode(sd.encap_content_info)
    \o Implicit_encode(TAG_CONTEXT_0, sd.certificates)
    \o SetOfVec_encode(sd.signer_infos)

SignedData_encode_value(sd) ==
  Tlv_encode(TAG_INTEGER, <<sd.version>>)
    \o SetOfVec_encode(sd.digest_algorithms)
    \o EncapsulatedContentInfo_encode(sd.encap_content_info)
    \o Implicit_encode(TAG_CONTEXT_0, sd.certificates)
    \o Implicit_encode(TAG_CONTEXT_1, sd.crls)
    \o SetOfVec_encode(sd.signer_infos)

SignedData_to_der(sd) == Tlv_encode(TAG_SEQUENCE, SignedData_encode_value(sd))

\* the body both constructors share once the certificate set is built
CertsOnly(certs) ==
  IF ~certs.ok THEN certs
  ELSE Let([sd \in {[version |-> 1,
                     digest_algorithms |-> <<>>,
                     encap_content_info |-> [econtent_type |-> ID_DATA, econtent |-> Absent],
                     certificates |-> Some(certs.val),
                     crls |-> Some(<<>>),
                     signer_infos |-> <<>>]} |->
         Let([content \in {from_bytes("Any", SignedData_to_der(sd), FALSE)} |->
           IF ~content.ok THEN [ok |-> FALSE, err |-> content.err, val |-> NoVal]
           ELSE [ok |-> TRUE, err |-> NoErr,
                 val |-> [content_type |-> ID_SIGNED_DATA, content |-> content.val]]])])

ContentInfo_try_from_Certificate(cert) == CertsOnly(SetOfVec_insert(<<>>, cert))

ContentInfo_try_from_PkiPath(pki_path) == CertsOnly(InsertAll(<<>>, pki_path))

CertsInit ==
  /\ tree = NoTree
  /\ input = <<>>
  /\ ber = FALSE
  /\ pos = 0
  /\ last \in {[Fresh EXCEPT !.op = "PkiPath", !.val = p] : p \in PkiPaths}
  /\ scan = Idle

Built(op, res) ==
  /\ last' = [op |-> op, arg |-> last.val, start |-> pos,
              ok |-> res.ok, err |-> res.err, val |-> res.val]
  /\ UNCHANGED <<input, ber, pos, tree, scan>>

TryFromCertificate ==
  /\ last.op = "PkiPath"
  /\ Len(last.val) = 1
  /\ Built("TryFrom<Certificate>", ContentInfo_try_from_Certificate(last.val[1]))

TryFromPkiPath ==
  /\ last.op = "PkiPath"
  /\ Built("TryFrom<PkiPath>", ContentInfo_try_from_PkiPath(last.val))

\* to_der of the message built; the bytes become the input of a later decode
EmitDer ==
  /\ last.op \in {"TryFrom<Certificate>", "TryFrom<PkiPath>"}
  /\ last.ok
  /\ input' = ContentInfo_to_der(last.val)
  /\ last' = [last EXCEPT !.op = "to_der", !.val = ContentInfo_to_der(last.val)]
  /\ UNCHANGED <<ber, pos, tree, scan>>

Redecoded(res) ==
  /\ last' = [op |-> "ContentInfo::from_der", arg |-> last.arg, start |-> pos,
              ok |-> res.ok, err |-> res.err, val |-> res.val]
  /\ pos' = res.r.pos
  /\ UNCHANGED <<input, ber, tree, scan>>

DecodeEmitted ==
  /\ last.op = "to_der"
  /\ Redecoded(from_bytes("ContentInfo", input, ber))

CertsNext ==
  \/ TryFromCertificate
  \/ TryFromPkiPath
  \/ EmitDer
  \/ DecodeEmitted

SpecCerts == CertsInit /\ [][CertsNext]_vars

Constructed == last.op \in {"TryFrom<Certificate>", "TryFrom<PkiPath>"}

\* the certificates of a chain, each once, in the DER order of a SET OF
SortedCerts(chain) ==
  Let([S \in {{chain[i] : i \in 1..Len(chain)}} |->
    CHOOSE q \in [1..Cardinality(S) -> S] :
      \A i \in 1..Cardinality(S), j \in 1..Cardinality(S) : i < j => LexLess(q[i], q[j])])

\* the DER of a SignedData: version v1, no digest algorithms, id-data without
\* eContent, the certificates, a present and empty crls set, no signer infos
CertsOnlySignedData(chain) ==
  <<2, 1, 1>>
    \o <<49, 0>>
    \o <<48, 11, 6, 9>> \o ID_DATA
    \o <<160, 3 * Len(SortedCerts(chain))>> \o Concat(SortedCerts(chain))
    \o <<161, 0>>
    \o <<49, 0>>

IsCertsOnly(ci, chain) ==
  /\ ci.content_type = ID_SIGNED_DATA
  /\ ci.content.tag = TAG_SEQUENCE
  /\ ci.content.value = CertsOnlySignedData(chain)

Repeats(chain) == \E i, j \in 1..Len(chain) : i < j /\ chain[i] = chain[j]

(* C14, as stated: for every certificate and every chain of certificates the
   constructor yields a ContentInfo with contentType id-signedData whose
   content is the DER of the certs-only SignedData holding exactly the
   certificates supplied. *)
C14_EveryChainBuilds ==
  Constructed => (last.ok /\ IsCertsOnly(last.val, last.arg))

(* C14, amended: the constructor yields that ContentInfo for every certificate
   and for every chain whose certificates are pairwise distinct; for a chain
   that repeats a certificate it yields no message and fails with
   DuplicateElement. *)
C14_DistinctChainBuilds ==
  Constructed =>
    IF Repeats(last.arg)
    THEN ~last.ok /\ last.err = "DuplicateElement"
    ELSE last.ok /\ IsCertsOnly(last.val, last.arg)

C14_Witness ==
  /\ last.op = "TryFrom<PkiPath>"
  /\ Len(last.arg) = 3
  /\ ~Repeats(last.arg)
  /\ last.ok

-----------------------------------------------------------------------------
(* The reader sequence() hands to the field decoder *)

\* the message starts with an indefinite-length header
StartsIndefinite == Len(input) >= 2 /\ input[2] = INDEFINITE_LENGTH_OCTET

\* what the scan returns for the value that follows the header at offset 0
ScannedAtStart == indefinite_value_length([SliceReader_new(input, ber) EXCEPT !.pos = 2])

(* C15: when sequence() meets an indefinite-length header, the reader handed
   to the field decoder holds the scanned length minus the two bytes of the
   end-of-content marker, the content only, so a field decoder cannot read the
   marker: the caller consumes it after the nested reader has finished. *)
C15_NestedReaderExcludesEoc ==
  (last.op = "sequence" /\ ber /\ StartsIndefinite /\ ScannedAtStart.ok) =>
    /\ last.arg.n > ScannedAtStart.val - EOC_LENGTH => ~last.ok
    /\ last.ok => pos = 2 + ScannedAtStart.val

-----------------------------------------------------------------------------
(* Definite TLVs whose length is written in a long form *)

LONG_FORM_1 == 129
LONG_FORM_2 == 130

\* the ways to write the length n < 128: short, 0x81 n, 0x82 0x00 n
LengthForms(n) == {<<n>>, <<LONG_FORM_1, n>>, <<LONG_FORM_2, 0, n>>}

Zeros(n) == [i \in 1..n |-> 0]

\* a primitive TLV with a value of n zero bytes, alone, before a sibling, and as
\* the contents of an indefinite-length SEQUENCE
LongInputs ==
  {pre \o <<TAG_INTEGER>> \o l \o Zeros(n) \o sib \o post :
     n \in 0..MaxValue,
     l \in UNION {LengthForms(m) : m \in 0..MaxValue},
     sib \in {<<>>, <<TAG_SET, 0>>},
     pre \in {<<>>, <<TAG_SEQUENCE, INDEFINITE_LENGTH_OCTET>>},
     post \in {<<>>, EOC_MARKER}}

LongInit ==
  /\ tree = NoTree
  /\ input \in LongInputs
  /\ ber \in BOOLEAN
  /\ pos = 0
  /\ last = Fresh
  /\ scan = Idle

LongNext ==
  \/ ReadHeader
  \/ TlvBytes
  \/ IndefiniteValueLength

SpecLong == LongInit /\ [][LongNext]_vars

\* the bytes a definite TLV at offset p occupies on the wire: the tag byte, the
\* length bytes as written, and the value
WireLength(p) ==
  IF input[p + 2] < INDEFINITE_LENGTH_OCTET THEN 2 + input[p + 2]
  ELSE 2 + (input[p + 2] - 128) + BigEndian(SubSeq(input, p + 3, p + 2 + (input[p + 2] - 128)))

\* a definite TLV with an accepted header lies, whole, at offset p
DefiniteTlvAt(p) ==
  /\ peek_header([SliceReader_new(input, ber) EXCEPT !.pos = p]).ok
  /\ is_definite(peek_header([SliceReader_new(input, ber) EXCEPT !.pos = p]).val.length)
  /\ p + WireLength(p) <= Len(input)

(* C16: for every definite-length TLV whose header the decoder accepts, one
   with a non-minimal long-form length included, tlv_bytes returns the bytes
   the TLV occupies on the wire and advances the cursor by their number, so
   that the next header is peeked at a TLV boundary. *)
C16_TlvBytesSkipsWireLength ==
  (last.op = "tlv_bytes" /\ DefiniteTlvAt(last.start)) =>
    /\ last.ok
    /\ last.val = BytesAt(last.start, WireLength(last.start))
    /\ pos = last.start + WireLength(last.start)

-----------------------------------------------------------------------------
(* Indefinite-length values with empty contents *)

\* the value of t is empty, or its scan descends into a value that is
RECURSIVE MeetsEmptyIndefinite(_)
MeetsEmptyIndefinite(t) ==
  \/ t.kids = <<>>
  \/ \E i \in 1..Len(t.kids) : t.kids[i].k = "indef" /\ MeetsEmptyIndefinite(t.kids[i])

(* C17: indefinite_value_length on an indefinite-length value with empty
   contents (the end-of-content marker follows the header at once) succeeds,
   returns 2 and leaves the cursor where it was; an empty indefinite-length
   value met inside the scanned value is skipped as its header and marker, so
   the scan returns the length of the contents plus 2. *)
C17_EmptyIndefiniteScanned ==
  Scanned =>
    \A s \in SitesAtStart :
      (ConstructedOnly(s.node) /\ MeetsEmptyIndefinite(s.node)) =>
        /\ last.ok
        /\ last.val = Len(EncForest(s.node.kids)) + EOC_LENGTH
        /\ pos = last.start

-----------------------------------------------------------------------------
(* The scan, one pass of its loop at a time, on every input *)

\* the long-form TLVs that lie in an indefinite-length SEQUENCE, marker and all
WrappedLongInputs ==
  {i \in LongInputs :
     /\ SubSeq(i, 1, 2) = <<TAG_SEQUENCE, INDEFINITE_LENGTH_OCTET>>
     /\ SubSeq(i, Len(i) - 1, Len(i)) = EOC_MARKER}

StepInit ==
  /\ \/ \E t \in SmallTrees, s \in Suffixes : tree = t /\ input = Enc(t) \o s
     \/ tree = NoTree /\ input \in WrappedLongInputs
  /\ ber = TRUE
  /\ pos = 0
  /\ last = Fresh
  /\ scan = Idle

\* the caller reads a header before it calls the scanner
StepSkip ==
  /\ scan.pc = "idle" /\ last.op = "new"
  /\ ReadHeader

\* the machine went to m: the call in progress is the cursor and `scan`, which
\* holds the length returned once the call is done
StepMoved(m) ==
  /\ scan' = [pc |-> m.pc, depth |-> m.depth, start |-> m.start,
              err |-> m.res.err, len |-> IF m.res.ok THEN m.res.val ELSE 0]
  /\ pos' = m.r.pos
  /\ UNCHANGED <<input, ber, tree, last>>

StepStart ==
  /\ scan.pc = "idle"
  /\ StepMoved(MachineStart(Rd))

\* one pass of the loop body, or one exit test
ScanStep ==
  /\ scan.pc \in {"loop", "exit"}
  /\ StepMoved(MachineStep([pc |-> scan.pc, depth |-> scan.depth,
                             start |-> scan.start, r |-> Rd, res |-> Ok(Rd, 0)]))

StepNext ==
  \/ StepSkip
  \/ StepStart
  \/ ScanStep

SpecStep == StepInit /\ [][StepNext]_vars

\* the scanner, once called, is run on: its passes are steps of one call, and
\* each of them changes the place in the loop, the depth or the cursor
SpecStepLive == SpecStep /\ WF_<<scan.pc, scan.depth, pos>>(ScanStep)

Scanning == scan.pc \in {"loop", "exit"}

Returned == scan.pc \in {"done", "failed"}

(* C18: on every finite input indefinite_value_length terminates, with a
   length or with an error: a pass of the loop body fails or moves the cursor
   forward by two bytes at least, an exit test never moves it back, the
   recursion depth stays within the recursion limit, and every scan that has
   begun returns. *)
C18_ScanTerminates ==
  /\ [][(scan.pc = "loop" /\ scan'.pc # "failed") => pos' >= pos + 2]_vars
  /\ [][(scan.pc = "exit" /\ scan'.pc \in {"loop", "exit"}) => pos' >= pos]_vars
  /\ [](scan.depth <= INDEFINITE_LENGTH_PARSER_RECURSION_MAX)
  /\ Scanning ~> Returned

\* a scan returned a length after passes over several TLVs
C18_Witness ==
  /\ scan.pc = "done"
  /\ scan.len >= 6
  /\ pos = scan.start

-----------------------------------------------------------------------------
(* The cursor stays within the input *)

InBounds(r) ==
  /\ position(r) <= input_len(r)
  /\ remaining_len(r) = input_len(r) - position(r)

\* the nested reader of the last read_nested call, as its closure left it
NestedAfter ==
  Call(last.arg.f, NestedReader_new(ReaderBefore(input), last.arg.len).r).r

(* C19: after every sequence of reader calls, successful or failed,
   position() <= input_len() and remaining_len() = input_len() - position(),
   for the reader and for the nested reader a closure has worked on; and the
   scanner never leaves the cursor before the position the scan started at. *)
C19_CursorWithinInput ==
  /\ InBounds(Rd)
  /\ NestedCalled => InBounds(NestedAfter)
  /\ Scanned => pos >= last.start

\* a scan has run forward and rewound to its start, beyond the start of the input
C19_Witness ==
  /\ Scanned /\ last.ok
  /\ last.start > 0
  /\ last.val > EOC_LENGTH
  /\ pos = last.start
  /\ InBounds(Rd)

====
